---------------------------- MODULE Spec2Model ----------------------------
(***************************************************************************)
(* Model of the Penguins dashboard (src/app/app.py).                       *)
(*                                                                         *)
(* The program is a Shiny Express page: a fixed data frame df, two inputs  *)
(* (input.mass, input.species), one reactive calc (filtered_df) and five   *)
(* outputs that read it (count, bill_length, bill_depth, length_depth,     *)
(* summary_statistics).  The decorators @reactive.calc and @render.* give  *)
(* the functions Shiny's reactive semantics: a changed input invalidates   *)
(* the calc, whose invalidation drops its cached value and invalidates     *)
(* every output that read it; the flush that ends the handling of the      *)
(* input message re-executes the invalidated outputs one after the other,  *)
(* and the first of them to call filtered_df() re-evaluates the calc.      *)
(*                                                                         *)
(* Numbers: body_mass_g in grams; bill_length_mm and bill_depth_mm in      *)
(* tenths of a millimetre (391 is 39.1 mm); NaN is the missing value.      *)
(***************************************************************************)
EXTENDS Integers, Sequences, FiniteSets, TLC

\* ------------------------------------------------------------------ bounds
\* Longest data frame the initial state draws.
MaxLen == 3
\* Number of equal steps the slider positions divide 2000..6000 into.
SliderTicks == 2

\* --------------------------------------------------------- program constants
MassMin == 2000
MassMax == 6000
MassDefault == 6000
SpeciesChoices == {"Adelie", "Gentoo", "Chinstrap"}
SpeciesDefault == {"Adelie", "Gentoo", "Chinstrap"}

\* The missing value of pandas (a float NaN in a numeric column); no
\* measurement is negative.
NaN == -1
\* A reactive calc or an output holds <<v>> when it has the value v, and
\* NoValue when it has none.
NoValue == <<>>

\* ------------------------------------------------------------- the data set
\* Rows palmerpenguins.load_penguins() can return: the columns the program
\* reads, and year as one of the columns it never reads.
PenguinRows ==
  { [species |-> "Adelie",    island |-> "Torgersen", bill_length_mm |-> 392,
     bill_depth_mm |-> 186, body_mass_g |-> 3750, year |-> 2007],
    [species |-> "Adelie",    island |-> "Torgersen", bill_length_mm |-> NaN,
     bill_depth_mm |-> NaN, body_mass_g |-> NaN,  year |-> 2007],
    [species |-> "Gentoo",    island |-> "Biscoe",    bill_length_mm |-> 592,
     bill_depth_mm |-> 170, body_mass_g |-> 6300, year |-> 2007],
    [species |-> "Gentoo",    island |-> "Biscoe",    bill_length_mm |-> 488,
     bill_depth_mm |-> 162, body_mass_g |-> 6000, year |-> 2008],
    [species |-> "Chinstrap", island |-> "Dream",     bill_length_mm |-> 468,
     bill_depth_mm |-> 166, body_mass_g |-> 1900, year |-> 2009] }

\* A data frame is a sequence of rows; each row carries its index label
\* (pandas' RangeIndex 0, 1, ...), which boolean-mask selection keeps.
WithIndex(rows) ==
  [i \in 1..Len(rows) |->
     [index |-> i - 1, species |-> rows[i].species, island |-> rows[i].island,
      bill_length_mm |-> rows[i].bill_length_mm,
      bill_depth_mm |-> rows[i].bill_depth_mm,
      body_mass_g |-> rows[i].body_mass_g, year |-> rows[i].year]]

RowSeqs == UNION { [1..n -> PenguinRows] : n \in 0..MaxLen }
Datasets == { WithIndex(rows) : rows \in RowSeqs }

\* A slider whose last position lies one step past its maximum.
SliderValuesPastMax ==
  { MassMin + (k * (MassMax - MassMin)) \div SliderTicks
      : k \in 0..(SliderTicks + 1) }

\* Positions of the slider: MassMin, MassMax and SliderTicks - 1 between.
SliderValues ==
  { MassMin + (k * (MassMax - MassMin)) \div SliderTicks : k \in 0..SliderTicks }

\* ------------------------------------------------------------ pandas helpers
\* Series.isin(values): membership, whatever the order of values.
isin(value, values) == value \in values

\* The comparison written <= instead of <.
le(value, scalar) == IF value = NaN THEN FALSE ELSE value <= scalar

\* The comparison written > instead of <.
gt(value, scalar) == IF value = NaN THEN FALSE ELSE value > scalar

\* Series < scalar, element by element: a comparison with NaN is False.
lt(value, scalar) == IF value = NaN THEN FALSE ELSE value < scalar

\* The two selections concatenated instead of applied one after the other.
filtered_df_concat(D, selected, threshold) ==
  SelectSeq(D, LAMBDA r : isin(r.species, selected))
    \o SelectSeq(D, LAMBDA r : lt(r.body_mass_g, threshold))

\* The reactive calc filtered_df, as a function of what it reads.
filtered_df(D, selected, threshold) ==
  LET filt_df == SelectSeq(D, LAMBDA r : isin(r.species, selected))
  IN  SelectSeq(filt_df, LAMBDA r : lt(r.body_mass_g, threshold))

RECURSIVE SumSeq(_)
SumSeq(s) == IF s = <<>> THEN 0 ELSE Head(s) + SumSeq(Tail(s))

\* Series.mean(): NaN entries are skipped and the sum of the others is
\* divided by their number.  The result is the rational num/den (in tenths
\* of a millimetre); the mean of nothing is 0/0, the float NaN.
mean(series) ==
  LET present == SelectSeq(series, LAMBDA x : x # NaN)
  IN  [num |-> SumSeq(present), den |-> Len(present)]

IsNaN(x) == x.den = 0

\* f"{x:.1f} mm": NaN prints as "nan"; a number is rounded to one decimal
\* (to the nearest tenth, an exact tie to the even digit).
format_mm(x) ==
  IF IsNaN(x) THEN "nan mm"
  ELSE LET q == x.num \div x.den
           r == x.num % x.den
           tenths == IF 2 * r > x.den \/ (2 * r = x.den /\ q % 2 = 1)
                     THEN q + 1 ELSE q
       IN  ToString(tenths \div 10) \o "." \o ToString(tenths % 10) \o " mm"

Column(view, name) == [i \in 1..Len(view) |-> view[i][name]]

\* ---------------------------------------------------------------- outputs
\* @render.text count: the number of rows, shown as text.
count(view) == ToString(Len(view))

\* @render.text bill_length
bill_length(view) == format_mm(mean(Column(view, "bill_length_mm")))

\* @render.text bill_depth
bill_depth(view) == format_mm(mean(Column(view, "bill_depth_mm")))

\* @render.plot length_depth: one point per row that has both coordinates,
\* coloured by species.
length_depth(view) ==
  LET drawn == SelectSeq(view, LAMBDA r : r.bill_length_mm # NaN
                                          /\ r.bill_depth_mm # NaN)
  IN  [i \in 1..Len(drawn) |->
         [x |-> drawn[i].bill_length_mm, y |-> drawn[i].bill_depth_mm,
          hue |-> drawn[i].species]]

\* @render.data_frame summary_statistics: the five columns cols of the view.
summary_statistics(view) ==
  [i \in 1..Len(view) |->
     [index |-> view[i].index, species |-> view[i].species,
      island |-> view[i].island, bill_length_mm |-> view[i].bill_length_mm,
      bill_depth_mm |-> view[i].bill_depth_mm,
      body_mass_g |-> view[i].body_mass_g]]

\* The outputs in the order the file defines them.
Outputs == <<"count", "bill_length", "bill_depth", "length_depth",
             "summary_statistics">>
OutputNames == { Outputs[i] : i \in 1..Len(Outputs) }

Render(name, view) ==
  CASE name = "count" -> count(view)
    [] name = "bill_length" -> bill_length(view)
    [] name = "bill_depth" -> bill_depth(view)
    [] name = "length_depth" -> length_depth(view)
    [] name = "summary_statistics" -> summary_statistics(view)

\* ------------------------------------------------------------------- state
VARIABLES
  df,            \* the data frame loaded at start
  mass,          \* input.mass()
  species,       \* input.species()
  calc_value,    \* <<view>> filtered_df caches, NoValue when invalidated
  shown,         \* <<v>> each output displays, NoValue before its first run
  pending        \* the invalidated outputs, in the order the flush runs them

vars == <<df, mass, species, calc_value, shown, pending>>

\* Outputs scheduled only when the view differs from the one they read.
DependentsIfChanged(oldView, newView) ==
  IF oldView = newView THEN <<>> ELSE Outputs

\* Only the three text outputs subscribed to the calc.
DependentsTextOnly(oldView, newView) == SubSeq(Outputs, 1, 3)

\* The outputs the invalidation of filtered_df schedules: every output that
\* read it, whether or not the view it will return differs from the one it
\* returned before.
Dependents(oldView, newView) == Outputs

\* An invalidation that leaves the cached value in place.
KeepCache(cached) == cached

\* What the invalidation of filtered_df leaves in its cache: nothing.
Invalidate(cached) == NoValue

\* After construction: the data is loaded, the inputs hold their defaults,
\* nothing has run yet, every output waits for the first flush.
Init ==
  /\ df \in Datasets
  /\ mass = MassDefault
  /\ species = SpeciesDefault
  /\ calc_value = NoValue
  /\ shown = [o \in OutputNames |-> NoValue]
  /\ pending = Outputs

\* The values input.species() takes after a click on the box of choice.
Toggle(selected, choice) ==
  IF choice \in selected THEN selected \ {choice} ELSE selected \cup {choice}

\* The user moves the slider: input.mass changes, filtered_df is invalidated
\* and with it the outputs that read it.  Messages are handled one at a
\* time, each followed by its flush.
SetMass ==
  /\ pending = <<>>
  /\ \E v \in SliderValues \ {mass} :
       /\ mass' = v
       /\ pending' = Dependents(filtered_df(df, species, mass),
                                filtered_df(df, species, v))
  /\ calc_value' = Invalidate(calc_value)
  /\ UNCHANGED <<df, species, shown>>

\* The user ticks or unticks one species.
SetSpecies ==
  /\ pending = <<>>
  /\ \E c \in SpeciesChoices :
       /\ species' = Toggle(species, c)
       /\ pending' = Dependents(filtered_df(df, species, mass),
                                filtered_df(df, Toggle(species, c), mass))
  /\ calc_value' = Invalidate(calc_value)
  /\ UNCHANGED <<df, mass, shown>>

\* What a call filtered_df() returns and leaves in the cache: the cached
\* value when there is one, else a fresh evaluation on the current inputs.
ReadCalc == IF calc_value # NoValue THEN calc_value[1]
            ELSE filtered_df(df, species, mass)

\* The flush runs the next invalidated output.
RunOutput ==
  /\ pending # <<>>
  /\ calc_value' = <<ReadCalc>>
  /\ shown' = [shown EXCEPT ![Head(pending)] = <<Render(Head(pending), ReadCalc)>>]
  /\ pending' = Tail(pending)
  /\ UNCHANGED <<df, mass, species>>

Next == SetMass \/ SetSpecies \/ RunOutput

Spec == Init /\ [][Next]_vars

TypeOK ==
  /\ df \in Datasets
  /\ mass \in SliderValues
  /\ species \subseteq SpeciesChoices
  /\ calc_value \in {NoValue} \cup { <<filtered_df(df, s, m)>> :
                                       s \in SUBSET SpeciesChoices,
                                       m \in SliderValues }
  /\ DOMAIN shown = OutputNames
  /\ \E n \in 0..Len(Outputs) :
       pending = SubSeq(Outputs, n + 1, Len(Outputs))

\* ------------------------------------------------------------- properties
\* filtered_df holds a value, and View is that value.
HasView == calc_value # NoValue
View == calc_value[1]
\* The flush that follows the last event has run to its end.
Settled == pending = <<>>

\* Row r's mass is a number strictly below t.
MassBelow(r, t) == r.body_mass_g # NaN /\ r.body_mass_g < t
Keeps(r, selected, t) == r.species \in selected /\ MassBelow(r, t)
Rows(frame) == { frame[i] : i \in 1..Len(frame) }

\* C1: the value of filtered_df holds exactly the rows of df whose species
\* is selected and whose body mass is strictly below the threshold: every
\* row of it satisfies both, and every row of df that satisfies both is in it.
C1_FilterExact ==
  HasView =>
    /\ \A r \in Rows(View) : r \in Rows(df) /\ Keeps(r, species, mass)
    /\ \A r \in Rows(df) : Keeps(r, species, mass) => r \in Rows(View)

\* C1 at work: a row of a selected species whose mass equals the threshold
\* is left out, beside a row that is kept.
C1_Witness ==
  /\ HasView
  /\ View # <<>>
  /\ \E r \in Rows(df) :
       r.species \in species /\ r.body_mass_g = mass /\ r \notin Rows(View)

\* C2: the value of filtered_df is an ordered sub-sequence of df: each row
\* is the row of df with that index label, and the labels strictly increase
\* (so no row occurs more often than in df, and the order is that of df).
C2_SubSequence ==
  HasView =>
    /\ \A j \in 1..Len(View) :
         /\ View[j].index + 1 \in 1..Len(df)
         /\ View[j] = df[View[j].index + 1]
    /\ \A j, k \in 1..Len(View) : j < k => View[j].index < View[k].index

\* C2 at work: two rows kept around a row that is dropped.
C2_Witness ==
  /\ HasView
  /\ Len(df) = 3
  /\ Len(View) = 2
  /\ View[1].index = 0
  /\ View[2].index = 2

\* C3: when the view is empty and the flush is over, count shows 0 and the
\* two means show something else than the library's rendering of the mean
\* of no elements.
C3_EmptyFallback ==
  (Settled /\ HasView /\ View = <<>>) =>
    /\ shown["count"] = <<"0">>
    /\ shown["bill_length"] # <<format_mm(mean(<<>>))>>
    /\ shown["bill_depth"] # <<format_mm(mean(<<>>))>>

\* Thresholds at, between and beyond the bounds of the slider.
Thresholds == SliderValues \cup {MassMin - 1000, MassMax + 1000}

\* C4: every row of the current view is in the view of any filter state
\* with a superset of the selected species and a threshold at least as high.
C4_Monotone ==
  HasView =>
    \A wider \in SUBSET SpeciesChoices : \A higher \in Thresholds :
      (species \subseteq wider /\ mass <= higher) =>
        Rows(View) \subseteq Rows(filtered_df(df, wider, higher))

\* C4 at work: a filter state with one more species and a higher threshold
\* adds a row to a view that is not empty.
C4_Witness ==
  /\ HasView
  /\ View # <<>>
  /\ \E c \in SpeciesChoices \ species : \E higher \in SliderValues :
       /\ higher > mass
       /\ Len(filtered_df(df, species \cup {c}, higher)) > Len(View)
       /\ Rows(View) \subseteq Rows(filtered_df(df, species \cup {c}, higher))

\* The degenerate filter states: nothing selected, or a threshold at or
\* beyond a bound of the slider.
Degenerate(selected, t) == selected = {} \/ t <= MassMin \/ t >= MassMax

\* C5 as stated: in a degenerate filter state the view is empty or is the
\* whole data frame.
C5_EmptyOrFull ==
  (HasView /\ Degenerate(species, mass)) => (View = <<>> \/ View = df)

\* C5 amended: filtered_df yields a data frame of rows of df for every
\* filter state, thresholds beyond the slider included, and every output
\* has a value once the flush is over; the view is empty when nothing is
\* selected or no mass is below the threshold, and is the whole data frame
\* when every species present is selected and every mass is below the
\* threshold.
C5_NeverFails ==
  /\ Settled => (HasView /\ \A o \in OutputNames : shown[o] # NoValue)
  /\ \A selected \in SUBSET SpeciesChoices : \A t \in Thresholds :
       LET v == filtered_df(df, selected, t)
       IN  /\ Rows(v) \subseteq Rows(df)
           /\ Len(v) <= Len(df)
           /\ (selected = {} \/ \A r \in Rows(df) : ~MassBelow(r, t))
                => v = <<>>
           /\ (\A r \in Rows(df) : Keeps(r, selected, t)) => v = df

\* C5 at work: after a flush with nothing selected the view is empty, while
\* with everything selected and the threshold at the slider's maximum the
\* view would be neither empty nor the whole data frame.
C5_Witness ==
  /\ Settled
  /\ HasView
  /\ species = {}
  /\ View = <<>>
  /\ LET v == filtered_df(df, SpeciesChoices, MassMax)
     IN  v # <<>> /\ v # df

\* C6: a cached value of filtered_df equals a fresh evaluation on the
\* current inputs.
C6_CacheIsFresh ==
  HasView => View = filtered_df(df, species, mass)

\* C6 at work: after a control event changed the view, the cache holds the
\* new view while an output still shows the old one.
C6_Witness ==
  /\ HasView
  /\ pending # <<>>
  /\ shown["summary_statistics"] # NoValue
  /\ shown["summary_statistics"] # <<summary_statistics(View)>>

\* C7: once the flush is over every output shows the rendering of
\* filtered_df on the current inputs (count the number of its rows), and
\* during the flush the view is evaluated by the first output that runs.
C7_OutputsCurrent ==
  /\ Settled =>
       /\ \A o \in OutputNames :
            shown[o] = <<Render(o, filtered_df(df, species, mass))>>
       /\ shown["count"] = <<ToString(Len(filtered_df(df, species, mass)))>>
  /\ (pending # Outputs) => HasView
  /\ \A n \in 1..Len(Outputs) :
       (Len(pending) < Len(Outputs) - n + 1 /\ ~Settled) =>
         shown[Outputs[n]] = <<Render(Outputs[n], filtered_df(df, species, mass))>>

\* C7 at work: the flush is over after events moved both controls away from
\* their defaults, and the view is not empty.
C7_Witness ==
  /\ Settled
  /\ mass # MassDefault
  /\ species # SpeciesDefault
  /\ HasView
  /\ View # <<>>

\* C8 as stated: a control event that leaves the view as it was schedules
\* no output.
C8_OnlyWhenViewChanged ==
  [][ ((mass' # mass \/ species' # species)
        /\ filtered_df(df, species', mass') = filtered_df(df, species, mass))
      => pending' = <<>> ]_vars

\* C8 amended: every control event that changes an input invalidates
\* filtered_df and schedules each of the five outputs, whether or not the
\* view changes; the flush then runs them one at a time, and a step that
\* runs one output changes what no other output shows.
C8_EveryEventRecomputesAll ==
  [][ /\ (mass' # mass \/ species' # species) =>
           (calc_value' = NoValue /\ pending' = Outputs)
      /\ (pending # <<>> /\ pending' = Tail(pending)) =>
           \A o \in OutputNames \ {Head(pending)} : shown'[o] = shown[o] ]_vars

\* C8 at work: all five outputs are scheduled again although each of them
\* already shows the rendering of the view of the current inputs.
C8_Witness ==
  /\ pending = Outputs
  /\ filtered_df(df, species, mass) # <<>>
  /\ \A o \in OutputNames :
       shown[o] = <<Render(o, filtered_df(df, species, mass))>>

\* C9: the inputs start at 6000 and the three species; the threshold stays
\* within 2000..6000 and the selection within the three species; an input
\* changes only by a move of the slider or a click on one box, one per
\* step; and df never changes.
C9_FilterStateDomain ==
  /\ (mass = 6000 /\ species = {"Adelie", "Gentoo", "Chinstrap"})
  /\ [](/\ mass \in 2000..6000
        /\ species \subseteq {"Adelie", "Gentoo", "Chinstrap"})
  /\ [][ /\ df' = df
         /\ (mass' # mass) => (species' = species /\ mass' \in SliderValues)
         /\ (species' # species) =>
              (mass' = mass /\ \E c \in SpeciesChoices :
                                 species' = Toggle(species, c)) ]_vars

\* C9 at work: both controls have been moved away from their defaults.
C9_Witness ==
  /\ mass = 2000
  /\ species = {"Gentoo"}
  /\ Settled

\* Row r cannot pass the threshold of any slider position.
NeverBelow(r) == r.body_mass_g = NaN \/ r.body_mass_g >= 6000

\* C10: no row whose mass is missing or at least 6000 is ever in the view;
\* when df has such a row the view never equals df and count never shows
\* the number of rows of df.
C10_HeavyRowsExcluded ==
  /\ HasView => \A r \in Rows(View) : ~NeverBelow(r)
  /\ (\E r \in Rows(df) : NeverBelow(r)) =>
       /\ HasView => View # df
       /\ shown["count"] # <<ToString(Len(df))>>

\* C10 at work: with everything selected and the threshold at its maximum,
\* count shows fewer rows than df has because a row of mass 6000 and a row
\* of missing mass are left out.
C10_Witness ==
  /\ Settled
  /\ mass = 6000
  /\ species = SpeciesChoices
  /\ \E r \in Rows(df) : r.body_mass_g = 6000
  /\ \E r \in Rows(df) : r.body_mass_g = NaN
  /\ shown["count"] = <<"1">>
=============================================================================
